---------------------------- MODULE Spec2Model ----------------------------
(***************************************************************************)
(* State-machine model of the decoding primitives of pfs                   *)
(* (namespace pfs::impl::utils): directory enumeration, whole-file reads,  *)
(* tokenization, socket-address and memory-size decoding.                  *)
(*                                                                         *)
(* A std::string is a sequence of one-character strings.  An unsigned      *)
(* integer of the program is the sequence of its digits in the base it was *)
(* decoded in, most significant first, without leading zeros (zero is      *)
(* <<0>>): 64-bit and 32-bit values do not fit the checker's integers.     *)
(***************************************************************************)
EXTENDS Integers, Sequences, FiniteSets, TLC

VARIABLES
    scenario,      \* "text": a decoder is applied to buffer; "fs": calls on node
    pc,            \* position of the caller / of the call in progress
    op,            \* the operation called last
    buffer,        \* the std::string argument of the text operation
    delim,         \* split's delim argument
    keep_empty,    \* split's keep_empty argument
    target,        \* stot's target type and base
    out,           \* what the text operation returned or threw
    node,          \* the filesystem object the path argument names
    call,          \* arguments of the filesystem call in progress / finished
    pos,           \* iterate_files: number of entries readdir has returned
    count,         \* iterate_files: local count
    visited,       \* iterate_files: names passed to the callback, in order
    files,         \* enumerate_*: the set the callback fills
    handles,       \* handle id -> [open, closes]: every handle ever opened
    deferred,      \* handle ids a live defer guard will close at scope exit
    fsres,         \* what the filesystem call returned or threw
    lastCount,     \* include_dots -> last value count_files returned ("none")
    ncalls         \* number of filesystem calls started

vars ==
    << scenario, pc, op, buffer, delim, keep_empty, target, out, node, call,
       pos, count, visited, files, handles, deferred, fsres, lastCount, ncalls >>

textVars ==
    << op, buffer, delim, keep_empty, target, out >>

fsVars ==
    << node, call, pos, count, visited, files, handles, deferred, fsres,
       lastCount, ncalls >>

---------------------------------------------------------------------------
(* Bounds of the model *)

\* longest buffer over Chars that split is applied to
MaxLen ==
    4

\* longest all-zero address part of a socket-address token, beyond 32
MaxAddrLen ==
    33

\* most entries of a directory besides "." and ".."
MaxEntries ==
    4

\* most filesystem calls in one behaviour
MaxCalls ==
    2

\* longest file content, largest max_bytes
MaxBytes ==
    3

---------------------------------------------------------------------------
(* Strings *)

Min(a, b) ==
    IF a < b THEN a ELSE b

\* std::string::substr(pos, n), 0-based, clamped at the end of the string
substr(s, p, n) ==
    SubSeq(s, p + 1, Min(p + n, Len(s)))

\* n copies of the character c
Rep(c, n) ==
    [i \in 1..n |-> c]

Contains(s, c) ==
    \E i \in 1..Len(s) : s[i] = c

Occurrences(s, c) ==
    Cardinality({i \in 1..Len(s) : s[i] = c})

---------------------------------------------------------------------------
(* split: src/unnamed/part_000 lines 183-211 *)

\* lines 196-200: a token found before a delimiter is kept unless it is empty
\* and keep_empty is false
SplitEmitAlways(arg, keep, acc) ==
    Append(acc, arg)

SplitEmitNonEmpty(arg, keep, acc) ==
    IF arg # <<>> THEN Append(acc, arg) ELSE acc

SplitEmit(arg, keep, acc) ==
    IF arg # <<>> \/ keep THEN Append(acc, arg) ELSE acc

\* lines 205-208: the text after the last delimiter, when there is any
SplitTailDropped(buf, last, curr, acc) ==
    acc

\* <= in place of the < of line 205
SplitTailAlways(buf, last, curr, acc) ==
    IF last <= curr THEN Append(acc, substr(buf, last, curr - last)) ELSE acc

SplitTail(buf, last, curr, acc) ==
    IF last < curr THEN Append(acc, substr(buf, last, curr - last)) ELSE acc

\* lines 189-203: the scan, last and curr being 0-based indices
RECURSIVE SplitLoop(_, _, _, _, _, _)
SplitLoop(buf, d, keep, last, curr, acc) ==
    IF curr < Len(buf)
    THEN IF buf[curr + 1] # d
         THEN SplitLoop(buf, d, keep, last, curr + 1, acc)
         ELSE SplitLoop(buf, d, keep, curr + 1, curr + 1,
                        SplitEmit(substr(buf, last, curr - last), keep, acc))
    ELSE SplitTail(buf, last, curr, acc)

split(buf, d, keep) ==
    SplitLoop(buf, d, keep, 0, 0, <<>>)

---------------------------------------------------------------------------
(* split_once: src/unnamed/part_000 lines 213-226 *)

\* std::string::npos
npos ==
    -1

\* std::string::substr(pos), 0-based: the rest of the string
substrFrom(s, p) ==
    SubSeq(s, p + 1, Len(s))

\* the 0-based index of the last d, as rfind would give
find_last_of(buf, d) ==
    IF Contains(buf, d)
    THEN (CHOOSE i \in 1..Len(buf) :
            buf[i] = d /\ \A j \in (i + 1)..Len(buf) : buf[j] # d) - 1
    ELSE npos

\* line 216: std::string::find_first_of(delim), a 0-based index or npos
find_first_of(buf, d) ==
    IF Contains(buf, d)
    THEN (CHOOSE i \in 1..Len(buf) :
            buf[i] = d /\ \A j \in 1..(i - 1) : buf[j] # d) - 1
    ELSE npos

split_once(buf, d) ==
    LET index == find_first_of(buf, d)
    IN  IF index = npos
        THEN << buf, <<>> >>
        ELSE << substr(buf, 0, index), substrFrom(buf, index + 1) >>

---------------------------------------------------------------------------
(* ensure_dir_terminator: src/unnamed/part_000 lines 253-261 *)

\* line 257: dir_path.back().  On an empty string it is undefined: the build
\* reads a byte that is the separator or is not ("other"), or a checked
\* library build stops the program ("abort")
BackOutcomes(dir_path) ==
    IF dir_path = <<>>
    THEN {"/", "other", "abort"}
    ELSE {dir_path[Len(dir_path)]}

\* lines 257-260, back being what dir_path.back() gave
ensure_dir_terminator(dir_path, back) ==
    IF back = "abort"
    THEN [kind |-> "abort"]
    ELSE [kind |-> "ok",
          path |-> IF back # "/" THEN Append(dir_path, "/") ELSE dir_path]

---------------------------------------------------------------------------
(* Defaults of split *)

\* utils.hpp declares split(buffer, delim = ' ', keep_empty = false)
DEFAULT_DELIM ==
    " "

DEFAULT_KEEP_EMPTY ==
    FALSE

---------------------------------------------------------------------------
(* Digits and unsigned integers *)

DigitChars ==
    << "0", "1", "2", "3", "4", "5", "6", "7", "8", "9",
       "A", "B", "C", "D", "E", "F" >>

LowerDigitChars ==
    << "0", "1", "2", "3", "4", "5", "6", "7", "8", "9",
       "a", "b", "c", "d", "e", "f" >>

\* the value of c as a digit, or -1 when c is no digit of base 16 or below
DigitOf(c) ==
    IF \E i \in 1..Len(DigitChars) : DigitChars[i] = c
    THEN (CHOOSE i \in 1..Len(DigitChars) : DigitChars[i] = c) - 1
    ELSE IF \E i \in 1..Len(LowerDigitChars) : LowerDigitChars[i] = c
    THEN (CHOOSE i \in 1..Len(LowerDigitChars) : LowerDigitChars[i] = c) - 1
    ELSE -1

RECURSIVE Normalize(_)
\* digits without leading zeros; zero is <<0>>
Normalize(ds) ==
    IF Len(ds) > 1 /\ Head(ds) = 0 THEN Normalize(Tail(ds)) ELSE ds

\* a > b for normalized digit sequences of one base
DigitsGreater(a, b) ==
    \/ Len(a) > Len(b)
    \/ /\ Len(a) = Len(b)
       /\ \E i \in 1..Len(a) :
            /\ a[i] > b[i]
            /\ \A j \in 1..(i - 1) : a[j] = b[j]

RECURSIVE ToNat(_, _)
\* the number a short digit sequence denotes
ToNat(ds, b) ==
    IF ds = <<>> THEN 0 ELSE ToNat(SubSeq(ds, 1, Len(ds) - 1), b) * b + ds[Len(ds)]

\* utils::base
BASE_DECIMAL ==
    10

BASE_HEX ==
    16

\* std::numeric_limits<T>::max() of the decoded types, as digits
UINT8_MAX_DEC ==
    << 2, 5, 5 >>

UINT16_MAX_HEX ==
    << 15, 15, 15, 15 >>

UINT32_MAX_HEX ==
    << 15, 15, 15, 15, 15, 15, 15, 15 >>

UINT64_MAX_DEC ==
    << 1, 8, 4, 4, 6, 7, 4, 4, 0, 7, 3, 7, 0, 9, 5, 5, 1, 6, 1, 5 >>

INT_MAX_DEC ==
    << 2, 1, 4, 7, 4, 8, 3, 6, 4, 7 >>

INT_MIN_MAGNITUDE_DEC ==
    << 2, 1, 4, 7, 4, 8, 3, 6, 4, 8 >>

Thrown(kind) ==
    [kind |-> kind]

RECURSIVE DigitPrefix(_, _)
\* the digits of the longest prefix of str made of digits of base b
DigitPrefix(str, b) ==
    IF str # <<>> /\ DigitOf(Head(str)) \in 0..(b - 1)
    THEN <<DigitOf(Head(str))>> \o DigitPrefix(Tail(str), b)
    ELSE <<>>

\* a decoder that stops at the first character outside the base's alphabet
stotOfPrefix(str, max, b) ==
    LET ds == DigitPrefix(str, b)
    IN  IF ds = <<>>
        THEN Thrown("invalid_argument")
        ELSE IF DigitsGreater(Normalize(ds), max)
        THEN Thrown("out_of_range")
        ELSE [kind |-> "ok", value |-> Normalize(ds)]

\* utils::stot(str, out, base) for an unsigned target whose largest value is
\* max: std::invalid_argument for a token with a character outside the
\* base's alphabet, std::out_of_range for a value above max
stot(str, max, b) ==
    LET ds == [i \in 1..Len(str) |-> DigitOf(str[i])]
    IN  IF str = <<>> \/ \E i \in 1..Len(ds) : ds[i] < 0 \/ ds[i] >= b
        THEN Thrown("invalid_argument")
        ELSE IF DigitsGreater(Normalize(ds), max)
        THEN Thrown("out_of_range")
        ELSE [kind |-> "ok", value |-> Normalize(ds)]

---------------------------------------------------------------------------
(* Address decoders: src/unnamed/part_000 lines 263-326 *)

\* parser_error(message, text)
ParserError(msg, text) ==
    [kind |-> "parser_error", msg |-> msg, text |-> text]

\* ip::ip(ipv4): the address in the first storage word, tagged IPv4
IpV4(raw) ==
    [domain |-> "AF_INET", storage |-> << raw, <<0>>, <<0>>, <<0>> >>]

\* ip::ip(ipv6): the four words as given, tagged IPv6
IpV6(raw) ==
    [domain |-> "AF_INET6", storage |-> raw]

\* ip::operator==, src/include/pfs/types.hpp lines 485-488
IpEquals(lhs, rhs) ==
    lhs.domain = rhs.domain /\ lhs.storage = rhs.storage

\* parse_address::HEX_BYTE_LEN, parse_ipv6_address::HEX_BYTE_LEN
HEX_BYTE_LEN ==
    8

\* std::tuple_size<ipv6>::value
IPV6_WORDS ==
    4

\* enum token { ..., COUNT } of parse_address and of parse_memory_size
COUNT ==
    2

parse_ipv4_address(ip_address_str) ==
    LET raw == stot(ip_address_str, UINT32_MAX_HEX, BASE_HEX)
    IN  IF raw.kind # "ok" THEN raw ELSE [kind |-> "ok", ip |-> IpV4(raw.value)]

\* lines 278-279: storage word i is decoded from characters [8i, 8i + 8);
\* std::string::substr throws std::out_of_range for a position past the end
Ipv6WordReversed(ip_address_str, i) ==
    IF (IPV6_WORDS - 1 - i) * HEX_BYTE_LEN > Len(ip_address_str)
    THEN Thrown("out_of_range")
    ELSE stot(substr(ip_address_str, (IPV6_WORDS - 1 - i) * HEX_BYTE_LEN,
                     HEX_BYTE_LEN),
              UINT32_MAX_HEX, BASE_HEX)

Ipv6Word(ip_address_str, i) ==
    IF i * HEX_BYTE_LEN > Len(ip_address_str)
    THEN Thrown("out_of_range")
    ELSE stot(substr(ip_address_str, i * HEX_BYTE_LEN, HEX_BYTE_LEN),
              UINT32_MAX_HEX, BASE_HEX)

parse_ipv6_address(ip_address_str) ==
    LET word(i) == Ipv6Word(ip_address_str, i)
        bad == {i \in 0..(IPV6_WORDS - 1) : word(i).kind # "ok"}
    IN  IF bad # {}
        THEN word(CHOOSE i \in bad : \A j \in bad : i <= j)
        ELSE [kind |-> "ok",
              ip |-> IpV6([i \in 1..IPV6_WORDS |-> word(i - 1).value])]

\* lines 306-320: the family follows from the length of the address part
AddressOfAnyLength(ip_str, address_str) ==
    IF Len(ip_str) <= HEX_BYTE_LEN
    THEN parse_ipv4_address(ip_str)
    ELSE parse_ipv6_address(ip_str)

AddressOf(ip_str, address_str) ==
    IF Len(ip_str) = HEX_BYTE_LEN
    THEN parse_ipv4_address(ip_str)
    ELSE IF Len(ip_str) = IPV6_WORDS * HEX_BYTE_LEN
    THEN parse_ipv6_address(ip_str)
    ELSE ParserError("Corrupted net socket address - Bad length", address_str)

\* lines 322-323
PortOf(port_str) ==
    stot(port_str, UINT16_MAX_HEX, BASE_HEX)

\* lines 298-304: the token-count test
AddressTokensOk(tokens) ==
    Len(tokens) = COUNT

parse_address(address_str) ==
    LET tokens == split(address_str, ":", DEFAULT_KEEP_EMPTY)
    IN  IF ~AddressTokensOk(tokens)
        THEN ParserError("Corrupted net socket address - Unexpected token counts",
                         address_str)
        ELSE LET addr == AddressOf(tokens[1], address_str)
                 port == PortOf(tokens[2])
             IN  IF addr.kind # "ok" THEN addr
                 ELSE IF port.kind # "ok" THEN port
                 ELSE [kind |-> "ok", ip |-> addr.ip,
                       port |-> ToNat(port.value, BASE_HEX)]

---------------------------------------------------------------------------
(* parse_memory_size: src/unnamed/part_000 lines 328-356 *)

\* lines 337-342: the token-count test
MemoryTokensAtLeast(tokens) ==
    Len(tokens) >= COUNT

MemoryTokensOk(tokens) ==
    Len(tokens) = COUNT

\* lines 344-355: both exceptions of the decoder become a parser_error
MemoryMagnitudeUncaught(size_str, value) ==
    LET r == stot(size_str, UINT64_MAX_DEC, BASE_DECIMAL)
    IN  IF r.kind = "invalid_argument"
        THEN ParserError("Corrupted memory size - Invalid argument", value)
        ELSE IF r.kind = "out_of_range"
        THEN r
        ELSE [kind |-> "ok", out |-> r.value]

MemoryMagnitude(size_str, value) ==
    LET r == stot(size_str, UINT64_MAX_DEC, BASE_DECIMAL)
    IN  IF r.kind = "invalid_argument"
        THEN ParserError("Corrupted memory size - Invalid argument", value)
        ELSE IF r.kind = "out_of_range"
        THEN ParserError("Corrupted memory size - Out of range", value)
        ELSE [kind |-> "ok", out |-> r.value]

parse_memory_size(value) ==
    LET tokens == split(value, DEFAULT_DELIM, DEFAULT_KEEP_EMPTY)
    IN  IF ~MemoryTokensOk(tokens)
        THEN ParserError("Corrupted memory size - Unexpected tokens count", value)
        ELSE MemoryMagnitude(tokens[1], value)

---------------------------------------------------------------------------
(* Inputs of the text operations *)

Chars ==
    {"a", "1", ":", " "}

Delims ==
    {":", " "}

SplitBuffers ==
    UNION {[1..n -> Chars] : n \in 0..MaxLen}

Loopback ==
    << "0", "1", "0", "0", "0", "0", "7", "F" >>

Ipv6Sample ==
    Rep("0", 7) \o <<"1">> \o Rep("0", 7) \o <<"2">> \o
    Rep("0", 7) \o <<"3">> \o Rep("0", 7) \o <<"4">>

AddrParts ==
    {Rep("0", n) : n \in 0..MaxAddrLen}
        \cup {Loopback, Rep("F", 8), Rep("G", 8), <<"1", "2", "3", "4", "5">>,
              Ipv6Sample, Rep("F", 32), Rep("G", 32)}

PortParts ==
    { << "0", "0", "5", "0" >>, <<>>, << "F", "F", "F", "F" >>,
      << "1", "0", "0", "0", "0" >>, << "G" >>, << "5", "0" >> }

AddressTokens ==
    UNION {{ a \o <<":">> \o p,
             a \o p,
             a \o <<":">> \o p \o <<":">>,
             a \o <<":", ":">> \o p,
             <<":">> \o a \o <<":">> \o p,
             a \o <<":">> \o p \o <<":">> \o p } : a \in AddrParts, p \in PortParts}

Magnitudes ==
    { << "1", "0", "2", "4" >>, << "0" >>, << "0", "0", "7" >>,
      << "1", "2", "a" >>, << "k" >>,
      << "1", "8", "4", "4", "6", "7", "4", "4", "0", "7",
         "3", "7", "0", "9", "5", "5", "1", "6", "1", "5" >>,
      << "1", "8", "4", "4", "6", "7", "4", "4", "0", "7",
         "3", "7", "0", "9", "5", "5", "1", "6", "1", "6" >>,
      Rep("9", 21) }

Units ==
    { << "k", "B" >>, << "B" >> }

MemoryValues ==
    UNION {{ m \o <<" ">> \o u,
             m \o u,
             m,
             m \o <<" ">> \o u \o <<" ">> \o u,
             m \o <<" ", " ">> \o u,
             <<" ">> \o m \o <<" ">> \o u \o <<" ">>,
             m \o <<" ">> } : m \in Magnitudes, u \in Units}

\* tokens for the numeric decoder on its own
StotTokens ==
    { << "2", "5", "5" >>, << "2", "5", "6" >>, << "0", "2", "5", "5" >>,
      << "F", "F" >>, << "f", "f" >>, << "1", "0", "0" >>, << "-", "1" >>,
      << "1", "2", " " >>, << "9", "9", "9", "a" >> }

Ipv6Mixed ==
    << "0", "0", "0", "0", "0", "0", "0", "A" >> \o Rep("F", 8) \o
    << "8", "0", "0", "0", "0", "0", "0", "0" >> \o Loopback

Ipv6MixedLower ==
    << "0", "0", "0", "0", "0", "0", "0", "a" >> \o Rep("f", 8) \o
    << "8", "0", "0", "0", "0", "0", "0", "0" >> \o Loopback

\* 32-digit tokens, and the IPv4 token whose storage equals that of the last
Ipv6Tokens ==
    { Ipv6Sample, Ipv6Mixed, Ipv6MixedLower, Rep("0", 32), Rep("F", 32),
      Loopback \o Rep("0", 24) }

CompareTokens ==
    Ipv6Tokens \cup {Loopback}

PathBuffers ==
    UNION {[1..n -> {"a", "/"}] : n \in 0..MaxLen}

Buffers ==
    SplitBuffers \cup AddressTokens \cup MemoryValues \cup StotTokens
        \cup Ipv6Tokens \cup PathBuffers

\* the targets stot is instantiated for, with the largest value of each
Targets ==
    { [type |-> "uint8_t", base |-> BASE_DECIMAL, max |-> UINT8_MAX_DEC],
      [type |-> "uint16_t", base |-> BASE_HEX, max |-> UINT16_MAX_HEX],
      [type |-> "uint32_t", base |-> BASE_HEX, max |-> UINT32_MAX_HEX],
      [type |-> "uint64_t", base |-> BASE_DECIMAL, max |-> UINT64_MAX_DEC] }

---------------------------------------------------------------------------
(* Initial states *)

NoResult ==
    [kind |-> "none"]

NoCall ==
    [fn |-> "none"]

NoTarget ==
    [type |-> "none"]

TextIdle ==
    /\ op = "none"
    /\ delim = DEFAULT_DELIM
    /\ keep_empty = DEFAULT_KEEP_EMPTY
    /\ target = NoTarget
    /\ out = NoResult

FsIdle ==
    /\ call = NoCall
    /\ pos = 0
    /\ count = 0
    /\ visited = <<>>
    /\ files = {}
    /\ handles = <<>>
    /\ deferred = {}
    /\ fsres = NoResult
    /\ lastCount = [d \in BOOLEAN |-> -1]
    /\ ncalls = 0

InitText ==
    /\ scenario = "text"
    /\ pc = "ready"
    /\ buffer \in Buffers
    /\ TextIdle
    /\ node = [type |-> "none"]
    /\ FsIdle

---------------------------------------------------------------------------
(* Text operations: each is applied once to the chosen buffer *)

CallSplit ==
    /\ scenario = "text"
    /\ pc = "ready"
    /\ \E d \in Delims, k \in BOOLEAN :
         /\ delim' = d
         /\ keep_empty' = k
         /\ out' = [kind |-> "ok", tokens |-> split(buffer, d, k)]
    /\ op' = "split"
    /\ pc' = "done"
    /\ UNCHANGED << scenario, buffer, target >>
    /\ UNCHANGED fsVars

CallParseAddress ==
    /\ scenario = "text"
    /\ pc = "ready"
    /\ out' = parse_address(buffer)
    /\ op' = "parse_address"
    /\ pc' = "done"
    /\ UNCHANGED << scenario, buffer, delim, keep_empty, target >>
    /\ UNCHANGED fsVars

CallParseMemorySize ==
    /\ scenario = "text"
    /\ pc = "ready"
    /\ out' = parse_memory_size(buffer)
    /\ op' = "parse_memory_size"
    /\ pc' = "done"
    /\ UNCHANGED << scenario, buffer, delim, keep_empty, target >>
    /\ UNCHANGED fsVars

CallParseIpv6Address ==
    /\ scenario = "text"
    /\ pc = "ready"
    /\ out' = parse_ipv6_address(buffer)
    /\ op' = "parse_ipv6_address"
    /\ pc' = "done"
    /\ UNCHANGED << scenario, buffer, delim, keep_empty, target >>
    /\ UNCHANGED fsVars

\* a caller decodes buffer and another token and compares the addresses
CallIpEquals ==
    /\ scenario = "text"
    /\ pc = "ready"
    /\ \E other \in CompareTokens :
         LET lhs == parse_ipv6_address(buffer)
             rhs == IF Len(other) = HEX_BYTE_LEN
                    THEN parse_ipv4_address(other)
                    ELSE parse_ipv6_address(other)
         IN  /\ lhs.kind = "ok"
             /\ rhs.kind = "ok"
             /\ out' = [kind |-> "ok", ip |-> lhs.ip, other |-> other,
                        otherIp |-> rhs.ip, equal |-> IpEquals(lhs.ip, rhs.ip)]
    /\ op' = "ip_equals"
    /\ pc' = "done"
    /\ UNCHANGED << scenario, buffer, delim, keep_empty, target >>
    /\ UNCHANGED fsVars

\* ensure_dir_terminator(dir_path), on buffer and then once more on the
\* path the first call left
CallEnsureDirTerminator ==
    /\ scenario = "text"
    /\ \/ pc = "ready"
       \/ /\ pc = "done"
          /\ op = "ensure_dir_terminator"
          /\ out.kind = "ok"
          /\ out.calls < 2
    /\ LET dir_path == IF pc = "ready" THEN buffer ELSE out.path
           calls == IF pc = "ready" THEN 0 ELSE out.calls
       IN  \E back \in BackOutcomes(dir_path) :
             out' = [before |-> dir_path, calls |-> calls + 1]
                       @@ ensure_dir_terminator(dir_path, back)
    /\ op' = "ensure_dir_terminator"
    /\ pc' = "done"
    /\ UNCHANGED << scenario, buffer, delim, keep_empty, target >>
    /\ UNCHANGED fsVars

CallSplitOnce ==
    /\ scenario = "text"
    /\ pc = "ready"
    /\ \E d \in Delims :
         /\ delim' = d
         /\ out' = [kind |-> "ok", first |-> split_once(buffer, d)[1],
                    second |-> split_once(buffer, d)[2]]
    /\ op' = "split_once"
    /\ pc' = "done"
    /\ UNCHANGED << scenario, buffer, keep_empty, target >>
    /\ UNCHANGED fsVars

\* utils::stot(buffer, out, base), as lines 266, 279, 323 and 346 call it
CallStot ==
    /\ scenario = "text"
    /\ pc = "ready"
    /\ \E t \in Targets :
         /\ target' = t
         /\ out' = stot(buffer, t.max, t.base)
    /\ op' = "stot"
    /\ pc' = "done"
    /\ UNCHANGED << scenario, buffer, delim, keep_empty >>
    /\ UNCHANGED fsVars

---------------------------------------------------------------------------
(* std::stoi, as enumerate_numeric_files calls it (line 93) *)

IsSpace(c) ==
    c \in {" ", "\t", "\n", "\r", "\f"}

RECURSIVE SkipSpaces(_)
SkipSpaces(s) ==
    IF s # <<>> /\ IsSpace(Head(s)) THEN SkipSpaces(Tail(s)) ELSE s

RECURSIVE DecimalPrefix(_)
\* the digits of the longest prefix of s made of decimal digits
DecimalPrefix(s) ==
    IF s # <<>> /\ DigitOf(Head(s)) \in 0..(BASE_DECIMAL - 1)
    THEN <<DigitOf(Head(s))>> \o DecimalPrefix(Tail(s))
    ELSE <<>>

\* std::stoi(name): leading whitespace, an optional sign, then as many decimal
\* digits as there are; what follows the digits is ignored.  No digit:
\* std::invalid_argument; a value outside int: std::out_of_range.
Stoi(name) ==
    LET s == SkipSpaces(name)
        signed == s # <<>> /\ Head(s) \in {"+", "-"}
        negative == s # <<>> /\ Head(s) = "-"
        ds == DecimalPrefix(IF signed THEN Tail(s) ELSE s)
        mag == Normalize(ds)
    IN  IF ds = <<>> THEN Thrown("invalid_argument")
        ELSE IF negative
        THEN IF DigitsGreater(mag, INT_MIN_MAGNITUDE_DEC)
             THEN Thrown("out_of_range")
             ELSE IF mag = INT_MIN_MAGNITUDE_DEC
             THEN [kind |-> "ok", value |-> (0 - ToNat(INT_MAX_DEC, BASE_DECIMAL)) - 1]
             ELSE [kind |-> "ok", value |-> 0 - ToNat(mag, BASE_DECIMAL)]
        ELSE IF DigitsGreater(mag, INT_MAX_DEC)
        THEN Thrown("out_of_range")
        ELSE [kind |-> "ok", value |-> ToNat(mag, BASE_DECIMAL)]

---------------------------------------------------------------------------
(* Filesystem objects *)

Dot ==
    << "." >>

DotDot ==
    << ".", "." >>

\* names a directory may hold besides "." and "..", in readdir's order
NamePool ==
    << << ".", "h", "i", "d", "d", "e", "n" >>,
       << "v", "i", "s", "i", "b", "l", "e" >>,
       << "1" >>,
       << "2" >>,
       << "f", "o", "o" >>,
       << "3", "b", "a", "r" >>,
       << "+", "4" >>,
       << "-", "6" >>,
       << "1", "2", "3", "4", "5", "6", "7", "8", "9", "0", "1" >> >>

Listing(S) ==
    LET Chosen(n) == \E i \in S : NamePool[i] = n
    IN  << Dot, DotDot >> \o SelectSeq(NamePool, Chosen)

Dirs ==
    {Listing(S) : S \in {T \in SUBSET (1..Len(NamePool)) : Cardinality(T) <= MaxEntries}}

Contents ==
    UNION {[1..n -> {"x", "\n"}] : n \in 0..MaxBytes}

Nodes ==
    {[type |-> "dir", entries |-> d] : d \in Dirs}
        \cup {[type |-> "file", content |-> c] : c \in Contents}
        \cup {[type |-> "missing"]}

InitFs ==
    /\ scenario = "fs"
    /\ pc = "idle"
    /\ buffer = <<>>
    /\ TextIdle
    /\ node \in Nodes
    /\ FsIdle

Init ==
    InitText \/ InitFs

---------------------------------------------------------------------------
(* Handles and the defer guard *)

\* a handle just returned by opendir or open
Opened(hs) ==
    Append(hs, [open |-> TRUE, closes |-> 0])

\* closedir(dp), close(fd)
Close(hs, h) ==
    [hs EXCEPT ![h] = [open |-> FALSE, closes |-> @.closes + 1]]

\* pfs::defer: the guard runs its action when its scope is left, by return
\* or by an exception
ScopeExit(hs, guarded) ==
    [h \in DOMAIN hs |-> IF h \in guarded THEN Close(hs, h)[h] ELSE hs[h]]

OsError(what) ==
    [kind |-> "system_error", what |-> what]

---------------------------------------------------------------------------
(* iterate_files and its specializations: src/unnamed/part_000 lines 37-103 *)

IterFns ==
    {"iterate_files", "count_files", "enumerate_files", "enumerate_numeric_files"}

\* line 50: defer close_dp([dp] { closedir(dp); })
DeferForgotten(h) ==
    {}

DeferClose(h) ==
    {h}

\* line 57: the dotfile filter
SkippedWhateverAsked(name, include_dots) ==
    name # <<>> /\ name[1] = "."

Skipped(name, include_dots) ==
    name # <<>> /\ name[1] = "." /\ ~include_dots

\* lines 81 and 90-99: what the callbacks of enumerate_files and of
\* enumerate_numeric_files do to the set they fill
HandleFiles(fn, fs, name) ==
    IF fn = "enumerate_files" THEN fs \cup {name}
    ELSE IF fn = "enumerate_numeric_files"
    THEN IF Stoi(name).kind = "ok" THEN fs \cup {Stoi(name).value} ELSE fs
    ELSE fs

\* lines 37-50: opendir, the failure branch, the guard
IterOpen ==
    /\ scenario = "fs"
    /\ pc = "idle"
    /\ ncalls < MaxCalls
    /\ \E fn \in IterFns, d \in BOOLEAN, ok \in BOOLEAN :
         /\ fn = "enumerate_numeric_files" => ~d
         /\ ok => node.type = "dir"
         /\ call' = [fn |-> fn, include_dots |-> d]
         /\ IF ok
            THEN /\ handles' = Opened(handles)
                 /\ deferred' = DeferClose(Len(handles) + 1)
                 /\ fsres' = NoResult
                 /\ pc' = "iterating"
            ELSE /\ handles' = handles
                 /\ deferred' = {}
                 /\ fsres' = OsError("Couldn't open dir")
                 /\ pc' = "idle"
    /\ pos' = 0
    /\ count' = 0
    /\ visited' = <<>>
    /\ files' = {}
    /\ ncalls' = ncalls + 1
    /\ UNCHANGED << scenario, node, lastCount >>
    /\ UNCHANGED textVars

\* lines 53-68: one turn of the readdir loop; the callback of a caller of
\* iterate_files may throw, which leaves the function through the guard
IterNext ==
    /\ scenario = "fs"
    /\ pc = "iterating"
    /\ pos < Len(node.entries)
    /\ pos' = pos + 1
    /\ LET name == node.entries[pos + 1]
       IN  IF Skipped(name, call.include_dots)
           THEN UNCHANGED << count, visited, files, handles, deferred, fsres, pc >>
           ELSE /\ count' = count + 1
                /\ visited' = IF call.fn = "count_files" THEN visited
                              ELSE Append(visited, name)
                /\ \/ /\ files' = HandleFiles(call.fn, files, name)
                      /\ UNCHANGED << handles, deferred, fsres, pc >>
                   \/ /\ call.fn = "iterate_files"
                      /\ files' = files
                      /\ handles' = ScopeExit(handles, deferred)
                      /\ deferred' = {}
                      /\ fsres' = Thrown("callback_exception")
                      /\ pc' = "idle"
    /\ UNCHANGED << scenario, node, call, lastCount, ncalls >>
    /\ UNCHANGED textVars

\* lines 53 and 70, 75, 84, 102: readdir returns null, the function returns
IterReturn ==
    /\ scenario = "fs"
    /\ pc = "iterating"
    /\ pos = Len(node.entries)
    /\ handles' = ScopeExit(handles, deferred)
    /\ deferred' = {}
    /\ fsres' = IF call.fn \in {"iterate_files", "count_files"}
                THEN [kind |-> "ok", count |-> count]
                ELSE [kind |-> "ok", files |-> files]
    /\ lastCount' = IF call.fn = "count_files"
                    THEN [lastCount EXCEPT ![call.include_dots] = count]
                    ELSE lastCount
    /\ pc' = "idle"
    /\ UNCHANGED << scenario, node, call, pos, count, visited, files, ncalls >>
    /\ UNCHANGED textVars

---------------------------------------------------------------------------
(* readfile: src/unnamed/part_000 lines 135-164 *)

\* lines 146-155: the bytes one read of at most max_bytes returns, content
\* being the bytes the kernel has for a read at offset 0
ReadBytes(content, max_bytes) ==
    SubSeq(content, 1, Min(max_bytes, Len(content)))

\* an if in place of the while of line 158
TrimOneNewline(buf, trim_newline) ==
    IF trim_newline /\ buf # <<>> /\ buf[Len(buf)] = "\n"
    THEN SubSeq(buf, 1, Len(buf) - 1)
    ELSE buf

RECURSIVE TrimNewlines(_, _)
\* lines 157-161
TrimNewlines(buf, trim_newline) ==
    IF trim_newline /\ buf # <<>> /\ buf[Len(buf)] = "\n"
    THEN TrimNewlines(SubSeq(buf, 1, Len(buf) - 1), trim_newline)
    ELSE buf

\* lines 138-144: open, the failure branch, the guard; open(2) with O_RDONLY
\* succeeds on a directory too
ReadfileOpen ==
    /\ scenario = "fs"
    /\ pc = "idle"
    /\ ncalls < MaxCalls
    /\ \E m \in 0..MaxBytes, t \in BOOLEAN, ok \in BOOLEAN :
         /\ ok => node.type \in {"file", "dir"}
         /\ call' = [fn |-> "readfile", max_bytes |-> m, trim_newline |-> t]
         /\ IF ok
            THEN /\ handles' = Opened(handles)
                 /\ deferred' = DeferClose(Len(handles) + 1)
                 /\ fsres' = NoResult
                 /\ pc' = "reading"
            ELSE /\ handles' = handles
                 /\ deferred' = {}
                 /\ fsres' = OsError("Couldn't open file")
                 /\ pc' = "idle"
    /\ pos' = 0
    /\ count' = 0
    /\ visited' = <<>>
    /\ files' = {}
    /\ ncalls' = ncalls + 1
    /\ UNCHANGED << scenario, node, lastCount >>
    /\ UNCHANGED textVars

\* lines 146-163: the read, its failure branch (always, for a directory),
\* the trimming, the return
ReadfileRead ==
    /\ scenario = "fs"
    /\ pc = "reading"
    /\ \E ok \in BOOLEAN :
         /\ ok => node.type = "file"
         /\ fsres' = IF ok
                     THEN [kind |-> "ok",
                           data |-> TrimNewlines(ReadBytes(node.content, call.max_bytes),
                                                 call.trim_newline)]
                     ELSE OsError("Couldn't read file")
    /\ handles' = ScopeExit(handles, deferred)
    /\ deferred' = {}
    /\ pc' = "idle"
    /\ UNCHANGED << scenario, node, call, pos, count, visited, files, lastCount, ncalls >>
    /\ UNCHANGED textVars

---------------------------------------------------------------------------
(* Specification *)

Next ==
    \/ CallSplit
    \/ CallParseAddress
    \/ CallParseMemorySize
    \/ CallStot
    \/ CallSplitOnce
    \/ CallEnsureDirTerminator
    \/ CallParseIpv6Address
    \/ CallIpEquals
    \/ IterOpen
    \/ IterNext
    \/ IterReturn
    \/ ReadfileOpen
    \/ ReadfileRead

Spec ==
    Init /\ [][Next]_vars

---------------------------------------------------------------------------
(* Vocabulary of the properties: what the results are compared with *)

\* the text operation fn has been applied to buffer
Applied(fn) ==
    scenario = "text" /\ pc = "done" /\ op = fn

\* the filesystem call fn has ended, by return or by exception
Ended(fn) ==
    scenario = "fs" /\ pc = "idle" /\ call.fn = fn /\ fsres.kind # "none"

Returned(fn) ==
    Ended(fn) /\ fsres.kind = "ok"

\* the k-th smallest element of a finite set of integers
Kth(S, k) ==
    CHOOSE i \in S : Cardinality({j \in S : j < i}) = k - 1

\* positions where a maximal run of characters other than d starts
RunStarts(b, d) ==
    {i \in 1..Len(b) : b[i] # d /\ (i = 1 \/ b[i - 1] = d)}

\* where the run starting at i ends
RunEnd(b, d, i) ==
    CHOOSE j \in i..Len(b) :
        /\ \A k \in i..j : b[k] # d
        /\ j = Len(b) \/ b[j + 1] = d

\* the maximal non-empty runs of characters other than d, in order
Runs(b, d) ==
    [k \in 1..Cardinality(RunStarts(b, d)) |->
        SubSeq(b, Kth(RunStarts(b, d), k), RunEnd(b, d, Kth(RunStarts(b, d), k)))]

RECURSIVE Join(_, _)
\* the tokens with d between consecutive ones
Join(tokens, d) ==
    IF tokens = <<>> THEN <<>>
    ELSE IF Len(tokens) = 1 THEN tokens[1]
    ELSE tokens[1] \o <<d>> \o Join(Tail(tokens), d)

\* every character of s is a digit of base b, and there is one
AllDigits(s, b) ==
    s # <<>> /\ \A i \in 1..Len(s) : DigitOf(s[i]) \in 0..(b - 1)

\* the digits s denotes, for s with AllDigits
DigitsOf(s) ==
    Normalize([i \in 1..Len(s) |-> DigitOf(s[i])])

\* a name that is a base-10 integer from its first character to its last,
\* with or without a sign
IsBase10Integer(name) ==
    \/ AllDigits(name, BASE_DECIMAL)
    \/ /\ name # <<>>
       /\ Head(name) \in {"+", "-"}
       /\ AllDigits(Tail(name), BASE_DECIMAL)

\* the int such a name denotes, for the names that denote one
IntOfName(name) ==
    IF Head(name) = "-" THEN 0 - ToNat(DigitsOf(Tail(name)), BASE_DECIMAL)
    ELSE IF Head(name) = "+" THEN ToNat(DigitsOf(Tail(name)), BASE_DECIMAL)
    ELSE ToNat(DigitsOf(name), BASE_DECIMAL)

FitsInt(name) ==
    ~DigitsGreater(DigitsOf(IF Head(name) \in {"+", "-"} THEN Tail(name) ELSE name),
                   INT_MAX_DEC)

NumericNames(entries) ==
    {entries[i] : i \in {j \in 1..Len(entries) :
                           IsBase10Integer(entries[j]) /\ FitsInt(entries[j])}}

\* an entry passes the dotfile filter
PassesFilter(name, include_dots) ==
    include_dots \/ name[1] # "."

Str_1024_kB ==
    << "1", "0", "2", "4", " ", "k", "B" >>

Str_1024kB ==
    << "1", "0", "2", "4", "k", "B" >>

Str_Loopback_80 ==
    Loopback \o << ":", "0", "0", "5", "0" >>

DirOfTheExample ==
    << Dot, DotDot, << ".", "h", "i", "d", "d", "e", "n" >>,
       << "v", "i", "s", "i", "b", "l", "e" >> >>

---------------------------------------------------------------------------
(* Properties *)

\* C1: enumerate_numeric_files returns exactly the integers denoted by the
\* entry names that are a base-10 integer from end to end; every other name
\* ("foo", "3bar") adds nothing.
C1_NumericFilesExact ==
    Returned("enumerate_numeric_files") =>
        fsres.files = {IntOfName(n) : n \in NumericNames(node.entries)}

\* C2: parse_address throws a parser_error for every token whose number of
\* ':' characters is not one.
C2_RejectsUnlessOneColon ==
    (Applied("parse_address") /\ Occurrences(buffer, ":") # 1) =>
        out.kind = "parser_error"

\* C3: for a token with exactly one ':', parse_address decides by the length
\* of the address part alone: any length but 8 and 32 is a parser_error, a
\* returned address is IPv4 with the part's hexadecimal value when the length
\* is 8 and IPv6 when it is 32, two well-formed parts always decode, and the
\* returned port is the 16-bit hexadecimal value of the port part;
\* "0100007F:0050" gives (IPv4 0x0100007F, 80).
C3_FamilyByLength ==
    (Applied("parse_address") /\ Occurrences(buffer, ":") = 1) =>
        LET colon == CHOOSE i \in 1..Len(buffer) : buffer[i] = ":"
            a == SubSeq(buffer, 1, colon - 1)
            p == SubSeq(buffer, colon + 1, Len(buffer))
        IN  /\ Len(a) \notin {8, 32} => out.kind = "parser_error"
            /\ out.kind = "ok" =>
                 /\ Len(a) = 8 =>
                      /\ out.ip.domain = "AF_INET"
                      /\ out.ip.storage[1] = DigitsOf(a)
                 /\ Len(a) = 32 => out.ip.domain = "AF_INET6"
                 /\ AllDigits(p, BASE_HEX)
                 /\ out.port = ToNat(DigitsOf(p), BASE_HEX)
                 /\ out.port \in 0..65535
            /\ ( /\ Len(a) \in {8, 32}
                 /\ AllDigits(a, BASE_HEX)
                 /\ AllDigits(p, BASE_HEX)
                 /\ Len(DigitsOf(p)) <= 4 ) => out.kind = "ok"
            /\ buffer = Str_Loopback_80 =>
                 /\ out.kind = "ok"
                 /\ out.ip.domain = "AF_INET"
                 /\ out.ip.storage[1] = << 1, 0, 0, 0, 0, 7, 15 >>
                 /\ out.port = 80

C3_Witness ==
    /\ Applied("parse_address")
    /\ buffer = Str_Loopback_80
    /\ out.kind = "ok"
    /\ out.port = 80

\* C4: when an iterate_files call returns, the callback has been invoked once
\* for each entry that passes the dotfile filter, in readdir's order, and for
\* no other entry; the count equals the number of entries passing the filter
\* with and without a callback; a count_files result equals the size of the
\* enumerate_files result for the same directory and flag; over
\* {".", "..", ".hidden", "visible"} without dots only "visible" is visited
\* and the count is 1.
C4_VisitsAndCountsTheFiltered ==
    \A fn \in IterFns :
        Returned(fn) =>
            LET passing == {i \in 1..Len(node.entries) :
                              PassesFilter(node.entries[i], call.include_dots)}
                Passes(n) == PassesFilter(n, call.include_dots)
            IN  /\ count = Cardinality(passing)
                /\ fn \in {"iterate_files", "count_files"} =>
                     fsres.count = Cardinality(passing)
                /\ fn # "count_files" => visited = SelectSeq(node.entries, Passes)
                /\ fn = "count_files" => visited = <<>>
                /\ (fn = "enumerate_files" /\ lastCount[call.include_dots] # -1) =>
                     Cardinality(fsres.files) = lastCount[call.include_dots]
                /\ (node.entries = DirOfTheExample /\ ~call.include_dots) =>
                     /\ count = 1
                     /\ fn # "count_files" =>
                          visited = << << "v", "i", "s", "i", "b", "l", "e" >> >>

C4_Witness ==
    /\ Returned("enumerate_files")
    /\ node.entries = DirOfTheExample
    /\ ~call.include_dots
    /\ lastCount[FALSE] = 1
    /\ fsres.files = {<< "v", "i", "s", "i", "b", "l", "e" >>}

\* C5: a handle opened by iterate_files or readfile is closed exactly once,
\* and before the call ends: between calls no handle is open, whether the
\* call returned, the callback threw, or the read failed; during a call the
\* only open handle is the one the call opened; a call whose open failed has
\* invoked no callback and opened nothing.
C5_HandlesClosedOnce ==
    /\ \A h \in DOMAIN handles :
         /\ handles[h].closes <= 1
         /\ handles[h].open <=> handles[h].closes = 0
    /\ pc = "idle" =>
         \A h \in DOMAIN handles : ~handles[h].open /\ handles[h].closes = 1
    /\ pc \in {"iterating", "reading"} =>
         /\ handles # <<>>
         /\ \A h \in DOMAIN handles : handles[h].open <=> h = Len(handles)
    /\ (scenario = "fs" /\ pc = "idle" /\ fsres.kind = "system_error"
          /\ fsres.what \in {"Couldn't open dir", "Couldn't open file"}) =>
         /\ visited = <<>>
         /\ count = 0
         /\ Len(handles) < ncalls

C5_Witness ==
    /\ Ended("iterate_files")
    /\ fsres.kind = "callback_exception"
    /\ Len(handles) = 2
    /\ \A h \in DOMAIN handles : ~handles[h].open /\ handles[h].closes = 1

\* C6: parse_memory_size throws the token-count parser_error exactly when the
\* value does not consist of two space-separated words; "1024 kB" sets out
\* to 1024; "1024kB", a lone magnitude and three or more words are rejected.
C6_TwoTokensOrParserError ==
    Applied("parse_memory_size") =>
        LET words == Runs(buffer, " ")
            wrongCount == ParserError(
                "Corrupted memory size - Unexpected tokens count", buffer)
        IN  /\ Len(words) # 2 => out = wrongCount
            /\ Len(words) = 2 => out # wrongCount
            /\ buffer = Str_1024_kB => out = [kind |-> "ok", out |-> << 1, 0, 2, 4 >>]
            /\ buffer = Str_1024kB => out = wrongCount

C6_Witness ==
    /\ Applied("parse_memory_size")
    /\ buffer = Str_1024_kB
    /\ out.kind = "ok"
    /\ ToNat(out.out, BASE_DECIMAL) = 1024

\* C7: for a value of two words whose magnitude does not decode,
\* parse_memory_size throws a parser_error carrying the whole value: with one
\* description for a magnitude that has a character other than a decimal
\* digit and another for a magnitude above the 64-bit range; nothing but a
\* parser_error is ever thrown.
C7_DecoderFailuresBecomeParserErrors ==
    Applied("parse_memory_size") =>
        LET words == Runs(buffer, " ")
        IN  /\ out.kind \in {"ok", "parser_error"}
            /\ out.kind = "parser_error" => out.text = buffer
            /\ Len(words) = 2 =>
                 /\ ~AllDigits(words[1], BASE_DECIMAL) =>
                      out = ParserError("Corrupted memory size - Invalid argument",
                                        buffer)
                 /\ ( /\ AllDigits(words[1], BASE_DECIMAL)
                      /\ DigitsGreater(DigitsOf(words[1]), UINT64_MAX_DEC) ) =>
                      out = ParserError("Corrupted memory size - Out of range",
                                        buffer)
                 /\ ( /\ AllDigits(words[1], BASE_DECIMAL)
                      /\ ~DigitsGreater(DigitsOf(words[1]), UINT64_MAX_DEC) ) =>
                      out.kind = "ok"

C7_Witness ==
    /\ Applied("parse_memory_size")
    /\ Len(Runs(buffer, " ")) = 2
    /\ out = ParserError("Corrupted memory size - Out of range", buffer)

\* C8 as stated: split(b, d, false) is [b] for every b without d, the empty
\* buffer included.
C8_SingleTokenAlways ==
    (Applied("split") /\ ~keep_empty /\ ~Contains(buffer, delim)) =>
        out.tokens = << buffer >>

\* C8 amended: split(b, d, false) is [b] for every non-empty b without d, and
\* the empty sequence for the empty buffer.
C8_SingleTokenUnlessEmpty ==
    (Applied("split") /\ ~keep_empty /\ ~Contains(buffer, delim)) =>
        out.tokens = IF buffer = <<>> THEN <<>> ELSE << buffer >>

C8_Witness ==
    /\ Applied("split")
    /\ ~keep_empty
    /\ ~Contains(buffer, delim)
    /\ Len(buffer) >= 2
    /\ out.tokens = << buffer >>

\* C9: for b that neither starts nor ends with d, joining the tokens of
\* split(b, d, true) with d reproduces b.
C9_RoundTrip ==
    ( /\ Applied("split")
      /\ keep_empty
      /\ buffer # <<>> => (buffer[1] # delim /\ buffer[Len(buffer)] # delim) ) =>
        Join(out.tokens, delim) = buffer

C9_Witness ==
    /\ Applied("split")
    /\ keep_empty
    /\ Len(buffer) = 4
    /\ buffer[1] # delim
    /\ buffer[2] = delim
    /\ buffer[3] = delim
    /\ buffer[4] # delim
    /\ Len(out.tokens) = 3
    /\ Join(out.tokens, delim) = buffer

\* C10: split(b, d, false) returns the maximal non-empty runs of characters
\* other than d, in order: no token is empty or holds d, delimiters at the
\* ends and repeated delimiters give no token, the last run needs no
\* delimiter after it, and the empty buffer gives no token.
C10_TokensAreTheRuns ==
    (Applied("split") /\ ~keep_empty) =>
        /\ out.tokens = Runs(buffer, delim)
        /\ \A k \in 1..Len(out.tokens) :
             out.tokens[k] # <<>> /\ ~Contains(out.tokens[k], delim)
        /\ buffer = <<>> => out.tokens = <<>>
        /\ Len(out.tokens) =
             Cardinality({i \in 1..Len(buffer) :
                            buffer[i] # delim /\ (i = 1 \/ buffer[i - 1] = delim)})

C10_Witness ==
    /\ Applied("split")
    /\ ~keep_empty
    /\ Len(buffer) = 4
    /\ buffer[1] = delim
    /\ buffer[2] # delim
    /\ buffer[3] = delim
    /\ buffer[4] # delim
    /\ out.tokens = << << buffer[2] >>, << buffer[4] >> >>

\* C11: readfile returns the first min(max_bytes, length) bytes of the file:
\* never more than max_bytes, and all of a file shorter than max_bytes; with
\* trim_newline every trailing "\n" of those bytes is removed and nothing
\* else, without it the bytes are returned as read.
C11_BoundedReadAndTrim ==
    Returned("readfile") =>
        LET content == node.content
            data == fsres.data
            \* the lengths one read of at most max_bytes can have
            isRead(n) == /\ n <= call.max_bytes
                         /\ n <= Len(content)
                         /\ n = call.max_bytes \/ n = Len(content)
        IN  /\ Len(data) <= call.max_bytes
            /\ data = SubSeq(content, 1, Len(data))
            /\ ~call.trim_newline => isRead(Len(data))
            /\ call.trim_newline =>
                 /\ data = <<>> \/ data[Len(data)] # "\n"
                 /\ \E n \in Len(data)..Len(content) :
                      /\ isRead(n)
                      /\ \A i \in (Len(data) + 1)..n : content[i] = "\n"
            /\ (Len(content) < call.max_bytes /\ ~call.trim_newline) =>
                 data = content

C11_Witness ==
    /\ Returned("readfile")
    /\ node.content = << "x", "\n", "\n" >>
    /\ call.max_bytes = 3
    /\ call.trim_newline
    /\ fsres.data = << "x" >>

\* C12: the numeric decoder fails in two distinguishable ways and returns no
\* value in either: a token with a character outside the base's alphabet
\* ("12a" in decimal) is std::invalid_argument, never std::out_of_range; a
\* token of digits whose value is above the target's range (256 for an 8-bit
\* unsigned target) is std::out_of_range, never std::invalid_argument.
C12_MalformedOrOutOfRange ==
    Applied("stot") =>
        LET foreign == \E i \in 1..Len(buffer) :
                          DigitOf(buffer[i]) \notin 0..(target.base - 1)
            tooBig == /\ AllDigits(buffer, target.base)
                      /\ DigitsGreater(DigitsOf(buffer), target.max)
        IN  /\ out.kind \in {"ok", "invalid_argument", "out_of_range"}
            /\ foreign => out.kind = "invalid_argument"
            /\ tooBig => out.kind = "out_of_range"
            /\ out.kind = "out_of_range" => tooBig
            /\ out.kind = "ok" =>
                 /\ AllDigits(buffer, target.base)
                 /\ out.value = DigitsOf(buffer)
                 /\ ~DigitsGreater(out.value, target.max)
            /\ (target.type = "uint8_t" /\ AllDigits(buffer, BASE_DECIMAL)
                  /\ Len(buffer) <= 4) =>
                 (out.kind = "out_of_range" <=> ToNat(DigitsOf(buffer), BASE_DECIMAL) > 255)
            /\ (buffer = << "1", "2", "a" >> /\ target.base = BASE_DECIMAL) =>
                 out.kind = "invalid_argument"
            /\ (buffer = << "2", "5", "6" >> /\ target.type = "uint8_t") =>
                 out.kind = "out_of_range"

C12_Witness ==
    /\ Applied("stot")
    /\ target.type = "uint8_t"
    /\ buffer = << "2", "5", "6" >>
    /\ out.kind = "out_of_range"

\* C13: split_once splits at the first d only: when b holds d, the head is
\* the text before the first d and holds no d, the remainder is all that
\* follows that d, later d's included, and head + d + remainder is b; when b
\* holds no d, the head is b and the remainder is empty.
C13_SplitsAtFirstOnly ==
    Applied("split_once") =>
        IF Contains(buffer, delim)
        THEN /\ ~Contains(out.first, delim)
             /\ out.first \o << delim >> \o out.second = buffer
             /\ Occurrences(out.second, delim) = Occurrences(buffer, delim) - 1
        ELSE /\ out.first = buffer
             /\ out.second = <<>>

C13_Witness ==
    /\ Applied("split_once")
    /\ Occurrences(buffer, delim) >= 2
    /\ out.first # <<>>
    /\ Contains(out.second, delim)
    /\ out.first \o << delim >> \o out.second = buffer

\* the value of word i (0-based) of a 32-digit token, by its characters
WordOfToken(token, i) ==
    DigitsOf(SubSeq(token, 8 * i + 1, 8 * i + 8))

\* C14: parse_ipv6_address on a token of 32 hexadecimal digits returns an
\* address tagged IPv6 whose storage word i is the hexadecimal value of the
\* characters [8i, 8i + 8) of the token, in the token's order; two decoded
\* addresses are equal exactly when their tags and their four words are: two
\* IPv6 results exactly when the tokens agree word by word in value, an IPv6
\* and an IPv4 result never.
C14_WordsInTokenOrder ==
    /\ ( /\ Applied("parse_ipv6_address")
         /\ Len(buffer) = 32
         /\ AllDigits(buffer, BASE_HEX) ) =>
            /\ out.kind = "ok"
            /\ out.ip.domain = "AF_INET6"
            /\ Len(out.ip.storage) = 4
            /\ \A i \in 0..3 : out.ip.storage[i + 1] = WordOfToken(buffer, i)
    /\ Applied("ip_equals") =>
            /\ out.equal <=>
                 /\ out.ip.domain = out.otherIp.domain
                 /\ \A i \in 1..4 : out.ip.storage[i] = out.otherIp.storage[i]
            /\ (Len(buffer) = 32 /\ Len(out.other) = 32) =>
                 (out.equal <=>
                    \A i \in 0..3 : WordOfToken(buffer, i) = WordOfToken(out.other, i))
            /\ Len(out.other) = 8 => ~out.equal

C14_Witness ==
    /\ Applied("parse_ipv6_address")
    /\ buffer = Ipv6Mixed
    /\ out.kind = "ok"
    /\ out.ip.storage =
         << << 10 >>, Rep(15, 8), << 8, 0, 0, 0, 0, 0, 0, 0 >>,
            << 1, 0, 0, 0, 0, 7, 15 >> >>

\* C15: ensure_dir_terminator appends one '/' to a path that does not end
\* with '/', leaves a path that ends with '/' as it is, and is idempotent for
\* every path, the empty one included: after a call the path ends with '/',
\* and a second call changes nothing.
C15_TerminatedAndIdempotent ==
    Applied("ensure_dir_terminator") =>
        /\ out.kind = "ok"
        /\ out.path # <<>> /\ out.path[Len(out.path)] = "/"
        /\ IF out.before # <<>> /\ out.before[Len(out.before)] = "/"
           THEN out.path = out.before
           ELSE out.path = out.before \o << "/" >>
        /\ out.calls = 2 => out.path = out.before

RECURSIVE Flatten(_)
\* the tokens one after the other
Flatten(tokens) ==
    IF tokens = <<>> THEN <<>> ELSE Head(tokens) \o Flatten(Tail(tokens))

\* C16: split(b, d, true) keeps the empty tokens of a leading d and of
\* consecutive d's but gives no token after a trailing d: there are as many
\* tokens as d's in b when b is empty or ends with d, and one more
\* otherwise; no token holds d, and the tokens one after the other are b
\* without its d's.
C16_KeepEmptyTokenCount ==
    (Applied("split") /\ keep_empty) =>
        LET NotDelim(c) == c # delim
            n == Occurrences(buffer, delim)
        IN  /\ Len(out.tokens) =
                 IF buffer = <<>> \/ buffer[Len(buffer)] = delim THEN n ELSE n + 1
            /\ \A k \in 1..Len(out.tokens) : ~Contains(out.tokens[k], delim)
            /\ Flatten(out.tokens) = SelectSeq(buffer, NotDelim)
            /\ (buffer # <<>> /\ buffer[1] = delim) => out.tokens[1] = <<>>
            /\ \A i \in 1..(Len(buffer) - 1) :
                 (buffer[i] = delim /\ buffer[i + 1] = delim) =>
                     out.tokens[Occurrences(SubSeq(buffer, 1, i + 1), delim)] = <<>>

C16_Witness ==
    /\ Applied("split")
    /\ keep_empty
    /\ Len(buffer) = 4
    /\ buffer[1] = delim
    /\ buffer[2] # delim
    /\ buffer[3] = delim
    /\ buffer[4] = delim
    /\ out.tokens = << <<>>, << buffer[2] >>, <<>> >>

=============================================================================
